---- MODULE Spec2Model ----
(***************************************************************************)
(* Model of ui-service/script.js: the browser-side form controller of the  *)
(* transport recommendation page.  The state is the part of the DOM the    *)
(* script reads and writes, the browser's local storage, and the submit    *)
(* handlers suspended at an await.  Each action is one event-loop task     *)
(* (an event handler, or the continuation of a handler after a promise     *)
(* settles) run to completion, as the single-threaded event loop runs it.  *)
(*                                                                         *)
(* Text is modelled as TLA+ strings built with \o.  The text of the        *)
(* destination field is a sequence of characters, one string each, so      *)
(* that trim() and encodeURIComponent() act on it character by character;  *)
(* a character is a UTF-16 code unit, and one outside printable ASCII is    *)
(* named by its number ("U+00A0", the surrogate "U+D83D").  JSON numbers   *)
(* are naturals counted in hundredths (2550 is 25.5).                      *)
(***************************************************************************)
EXTENDS Integers, Sequences, FiniteSets, Bags, TLC

\* The number of requests the page may issue in one behaviour.
MaxFetches == 2

----------------------------------------------------------------------------
(* JavaScript values met in the JSON bodies *)

Undefined == [t |-> "undefined", s |-> "", n |-> 0]
Null      == [t |-> "null", s |-> "", n |-> 0]
Str(x)    == [t |-> "string", s |-> x, n |-> 0]
Num(h)    == [t |-> "number", s |-> "", n |-> h]

\* ToBoolean, as applied by &&, || and if
Truthy(v) ==
    CASE v.t = "string" -> v.s # ""
      [] v.t = "number" -> v.n # 0
      [] v.t = "object" -> TRUE
      [] v.t = "array"  -> TRUE
      [] OTHER          -> FALSE

TwoDigits(k) == IF k < 10 THEN "0" \o ToString(k) ELSE ToString(k)

\* The fraction digits of Number.prototype.toString: no trailing zeros.
Fraction(k) ==
    IF k = 0 THEN ""
    ELSE IF k % 10 = 0 THEN "." \o ToString(k \div 10)
    ELSE "." \o TwoDigits(k)

\* ToString, as applied by a template literal `${v}` and by new Error(v).
\* An array is joined with ",", a null or undefined element giving no text.
RECURSIVE JsToString(_)
RECURSIVE JoinItems(_)
JoinItems(xs) ==
    LET text(x) == IF x.t \in {"null", "undefined"} THEN "" ELSE JsToString(x)
    IN  IF xs = <<>> THEN ""
        ELSE IF Len(xs) = 1 THEN text(xs[1])
        ELSE text(xs[1]) \o "," \o JoinItems(Tail(xs))

JsToString(v) ==
    CASE v.t = "string"    -> v.s
      [] v.t = "number"    -> ToString(v.n \div 100) \o Fraction(v.n % 100)
      [] v.t = "null"      -> "null"
      [] v.t = "undefined" -> "undefined"
      [] v.t = "array"     -> JoinItems(v.items)
      [] OTHER             -> "[object Object]"

\* Number.prototype.toFixed(2)
toFixed2(v) == ToString(v.n \div 100) \o "." \o TwoDigits(v.n % 100)

\* The TypeError raised by evaluating v.toFixed(2) when v is no number
\* ("" when v is a number), with the name of the property read.
toFixedError(v, prop) ==
    CASE v.t = "number"    -> ""
      [] v.t = "undefined" -> "Cannot read properties of undefined (reading 'toFixed')"
      [] v.t = "null"      -> "Cannot read properties of null (reading 'toFixed')"
      [] OTHER             -> "rec." \o prop \o ".toFixed is not a function"

----------------------------------------------------------------------------
(* Text of the destination field: String.prototype.trim and                *)
(* encodeURIComponent.  A text is the sequence of its characters; a        *)
(* character outside printable ASCII is written as an escape ("\t", "\n",  *)
(* "\r", "\f") or by the name of its code point ("U+00A0", and "U+0060"    *)
(* for the grave accent).                                                  *)

\* White space and line terminators of ECMAScript, which trim() strips.
WhiteSpace ==
    { "\t", "\n", "U+000B", "\f", "\r", " ", "U+00A0", "U+1680",
      "U+2000", "U+2001", "U+2002", "U+2003", "U+2004", "U+2005", "U+2006",
      "U+2007", "U+2008", "U+2009", "U+200A", "U+2028", "U+2029", "U+202F",
      "U+205F", "U+3000", "U+FEFF" }

RECURSIVE TrimStart(_)
TrimStart(s) ==
    IF s # <<>> /\ Head(s) \in WhiteSpace THEN TrimStart(Tail(s)) ELSE s

RECURSIVE TrimEnd(_)
TrimEnd(s) ==
    IF s # <<>> /\ s[Len(s)] \in WhiteSpace
    THEN TrimEnd(SubSeq(s, 1, Len(s) - 1))
    ELSE s

trim(s) == TrimEnd(TrimStart(s))

\* The characters encodeURIComponent keeps.
Unreserved ==
    { "A", "B", "C", "D", "E", "F", "G", "H", "I", "J", "K", "L", "M",
      "N", "O", "P", "Q", "R", "S", "T", "U", "V", "W", "X", "Y", "Z",
      "a", "b", "c", "d", "e", "f", "g", "h", "i", "j", "k", "l", "m",
      "n", "o", "p", "q", "r", "s", "t", "u", "v", "w", "x", "y", "z",
      "0", "1", "2", "3", "4", "5", "6", "7", "8", "9",
      "-", "_", ".", "!", "~", "*", "'", "(", ")" }

\* The number of a code unit that is not unreserved.  The table holds
\* ASCII, the white space of trim(), a few letters and one surrogate of each
\* kind; the model has no other characters.
CodePoint(c) ==
    CASE c = "\t" -> 9       [] c = "\n" -> 10      [] c = "U+000B" -> 11
      [] c = "\f" -> 12      [] c = "\r" -> 13      [] c = " " -> 32
      [] c = "\"" -> 34      [] c = "#" -> 35       [] c = "$" -> 36
      [] c = "%" -> 37       [] c = "&" -> 38       [] c = "+" -> 43
      [] c = "," -> 44       [] c = "/" -> 47       [] c = ":" -> 58
      [] c = ";" -> 59       [] c = "<" -> 60       [] c = "=" -> 61
      [] c = ">" -> 62       [] c = "?" -> 63       [] c = "@" -> 64
      [] c = "[" -> 91       [] c = "\\" -> 92      [] c = "]" -> 93
      [] c = "^" -> 94       [] c = "U+0060" -> 96      [] c = "{" -> 123
      [] c = "|" -> 124      [] c = "}" -> 125
      [] c = "U+00A0" -> 160   [] c = "U+00E9" -> 233   [] c = "U+00F1" -> 241
      [] c = "U+00FC" -> 252   [] c = "U+1680" -> 5760  [] c = "U+2000" -> 8192
      [] c = "U+2001" -> 8193  [] c = "U+2002" -> 8194  [] c = "U+2003" -> 8195
      [] c = "U+2004" -> 8196  [] c = "U+2005" -> 8197  [] c = "U+2006" -> 8198
      [] c = "U+2007" -> 8199  [] c = "U+2008" -> 8200  [] c = "U+2009" -> 8201
      [] c = "U+200A" -> 8202  [] c = "U+2028" -> 8232  [] c = "U+2029" -> 8233
      [] c = "U+202F" -> 8239  [] c = "U+205F" -> 8287  [] c = "U+3000" -> 12288
      [] c = "U+6771" -> 26481 [] c = "U+FEFF" -> 65279
      [] c = "U+D83D" -> 55357 [] c = "U+DE00" -> 56832

\* The halves of a character outside the basic plane: U+D800 to U+DBFF
\* leads, U+DC00 to U+DFFF trails.
IsHighSurrogate(c) == c \notin Unreserved /\ CodePoint(c) \in 55296..56319
IsLowSurrogate(c)  == c \notin Unreserved /\ CodePoint(c) \in 56320..57343

\* The code point a leading and a trailing surrogate stand for.
PairCodePoint(hi, lo) ==
    65536 + (CodePoint(hi) - 55296) * 1024 + (CodePoint(lo) - 56320)

HexDigits ==
    <<"0", "1", "2", "3", "4", "5", "6", "7", "8", "9", "A", "B", "C", "D", "E", "F">>

\* The escape of one byte.
HexByte(b) == "%" \o HexDigits[(b \div 16) + 1] \o HexDigits[(b % 16) + 1]

\* The escapes of the UTF-8 bytes of a code point.
Utf8Escape(cp) ==
    IF cp < 128 THEN HexByte(cp)
    ELSE IF cp < 2048
    THEN HexByte(192 + (cp \div 64)) \o HexByte(128 + (cp % 64))
    ELSE IF cp < 65536
    THEN HexByte(224 + (cp \div 4096)) \o HexByte(128 + ((cp \div 64) % 64))
             \o HexByte(128 + (cp % 64))
    ELSE HexByte(240 + (cp \div 262144)) \o HexByte(128 + ((cp \div 4096) % 64))
             \o HexByte(128 + ((cp \div 64) % 64)) \o HexByte(128 + (cp % 64))

\* encodeURIComponent on one character that is no surrogate.
EncodeToken(c) == IF c \in Unreserved THEN c ELSE Utf8Escape(CodePoint(c))

\* What a call gives: the value it returns, or the message of the error it
\* throws.
Returned(value) == [threw |-> FALSE, message |-> "", value |-> value]
Thrown(message) == [threw |-> TRUE, message |-> message, value |-> <<>>]

\* The URIError of encodeURIComponent.
URIMalformed == Thrown("URI malformed")

\* An escaped character put before the outcome of encoding the rest.
EncodedBefore(token, rest) ==
    IF rest.threw THEN rest ELSE Returned(<<token>> \o rest.value)

\* Line 31: encodeURIComponent(s).  It goes through s from the left: an
\* unreserved character stays, a leading surrogate and the trailing one after
\* it are escaped as the one character they stand for, any other surrogate
\* makes it throw a URIError, any other character is escaped.
RECURSIVE encodeURIComponent(_)
encodeURIComponent(s) ==
    IF s = <<>> THEN Returned(<<>>)
    ELSE LET c == Head(s) IN
         IF IsLowSurrogate(c) THEN URIMalformed
         ELSE IF IsHighSurrogate(c)
         THEN IF Len(s) >= 2 /\ IsLowSurrogate(s[2])
              THEN EncodedBefore(Utf8Escape(PairCodePoint(c, s[2])),
                                 encodeURIComponent(Tail(Tail(s))))
              ELSE URIMalformed
         ELSE EncodedBefore(EncodeToken(c), encodeURIComponent(Tail(s)))

\* The characters of the value of an option of the preference control.
Chars(preference) ==
    CASE preference = "fastest"  -> <<"f", "a", "s", "t", "e", "s", "t">>
      [] preference = "cheapest" -> <<"c", "h", "e", "a", "p", "e", "s", "t">>
      [] preference = "greenest" -> <<"g", "r", "e", "e", "n", "e", "s", "t">>
      [] preference = ""         -> <<>>

\* relativeUrl with the destination put into the URL as typed.
UnencodedUrl(destination, preference) ==
    Returned(<<"/api/route", "?", "destination", "=">> \o destination
                 \o <<"&", "preference", "=">> \o Chars(preference))

\* The URL fetchRecommendations requests: the literal pieces of the template
\* of line 31 ("/api/route", "?", "destination", "=", "&", "preference",
\* "=") and, between them, the escaped characters of the two values; or the
\* URIError one of the two calls of encodeURIComponent throws.
relativeUrl(destination, preference) ==
    LET d == encodeURIComponent(destination)
        p == encodeURIComponent(Chars(preference))
    IN  IF d.threw THEN d
        ELSE IF p.threw THEN p
        ELSE Returned(<<"/api/route", "?", "destination", "=">> \o d.value
                          \o <<"&", "preference", "=">> \o p.value)

----------------------------------------------------------------------------
(* The renderer: displayResults                                            *)

\* An array or a string found where the body should hold a sequence.
Absent      == [t |-> "undefined", s |-> "", n |-> 0, items |-> <<>>]
Array(xs)   == [t |-> "array", s |-> "", n |-> 0, items |-> xs]
Text(x)     == [t |-> "string", s |-> x, n |-> 0, items |-> <<>>]

\* v.length
Length(v) == IF v.t = "array" THEN Len(v.items) ELSE Len(v.s)

\* The icon of a mode (the emoji's code point), "" for any other mode.
Icon(mode) ==
    IF mode.t # "string" THEN ""
    ELSE CASE mode.s = "car"     -> "U+1F697"
           [] mode.s = "bus"     -> "U+1F68C"
           [] mode.s = "train"   -> "U+1F686"
           [] mode.s = "bicycle" -> "U+1F6B2"
           [] mode.s = "walking" -> "U+1F6B6"
           [] mode.s = "scooter" -> "U+1F6F4"
           [] OTHER              -> ""

\* The message of the TypeError that building the entry of rec raises, ""
\* when it raises none.
RecError(rec) ==
    IF rec.t \in {"null", "undefined"}
    THEN "Cannot read properties of " \o rec.t \o " (reading 'mode')"
    ELSE IF toFixedError(rec.cost_usd, "cost_usd") # ""
    THEN toFixedError(rec.cost_usd, "cost_usd")
    ELSE toFixedError(rec.environmental_impact_co2_kg, "environmental_impact_co2_kg")

\* The <li> of one recommendation: the text of its five <div>s.
RenderLi(rec) ==
    << Icon(rec.mode) \o "Mode: " \o JsToString(rec.mode),
       "Duration: " \o JsToString(rec.duration_minutes) \o " minutes",
       "Est. Cost: $" \o toFixed2(rec.cost_usd),
       "CO2 Emissions: " \o toFixed2(rec.environmental_impact_co2_kg) \o " kg",
       "(Source: " \o (IF Truthy(rec.source_cloud)
                       THEN JsToString(rec.source_cloud)
                       ELSE "Unknown Cloud") \o ")" >>

EmptyLi == <<"No recommendations found matching your criteria.">>

\* data.recommendations.forEach(...): appends one <li> per entry, in order,
\* until an entry raises.
RECURSIVE ForEachRec(_, _, _)
ForEachRec(recs, i, list) ==
    IF i > Len(recs) THEN [list |-> list, message |-> ""]
    ELSE IF RecError(recs[i]) # ""
    THEN [list |-> list, message |-> RecError(recs[i])]
    ELSE ForEachRec(recs, i + 1, Append(list, RenderLi(recs[i])))

\* data.notes.map(note => `<p>${note}</p>`).join('')
RECURSIVE JoinNotes(_)
JoinNotes(notes) ==
    IF notes = <<>> THEN ""
    ELSE "<p>" \o JsToString(Head(notes)) \o "</p>" \o JoinNotes(Tail(notes))

RenderOrigin(data) ==
    IF Truthy(data.origin) /\ Truthy(data.origin.city)
    THEN "<p><strong>Detected Origin:</strong> "
             \o JsToString(data.origin.city) \o "</p>"
    ELSE "<p>Origin information not available.</p>"

\* ClearList without the assignment of line 80.
KeepList(r) == r

\* Line 80: recommendationList.innerHTML = ''
ClearList(r) == [r EXCEPT !.recommendationList = <<>>]

\* Lines 79-104: the recommendation list, given the regions r after the
\* origin and the notes were drawn.
RenderRecommendations(r, data) ==
    LET recs == data.recommendations
        c    == ClearList(r)
    IN  IF Truthy(recs) /\ Length(recs) > 0
        THEN IF recs.t = "array"
             THEN LET e == ForEachRec(recs.items, 1, c.recommendationList) IN
                  [c EXCEPT !.recommendationList = e.list, !.message = e.message]
             ELSE [c EXCEPT !.message =
                                "data.recommendations.forEach is not a function"]
        ELSE [c EXCEPT !.recommendationList = <<EmptyLi>>]

\* Lines 70-76: the notes, given the regions r after the origin was drawn.
RenderNotes(r, data) ==
    LET notes == data.notes IN
    IF Truthy(notes) /\ Length(notes) > 0
    THEN IF notes.t = "array"
         THEN RenderRecommendations(
                  [r EXCEPT !.notesInfo = JoinNotes(notes.items),
                            !.notesDisplay = "block"], data)
         ELSE [r EXCEPT !.message = "data.notes.map is not a function"]
    ELSE RenderRecommendations([r EXCEPT !.notesDisplay = "none"], data)

\* displayResults(data) run on the regions r.  The result holds the regions
\* as the call leaves them and, in message, the message of the TypeError it
\* raised ("" when it returned).
displayResults(r, data) ==
    IF data.t \in {"null", "undefined"}
    THEN [r EXCEPT !.message =
              "Cannot read properties of " \o data.t \o " (reading 'origin')"]
    ELSE RenderNotes([r EXCEPT !.originInfo = RenderOrigin(data)], data)

----------------------------------------------------------------------------
(* The recommendation client: fetchRecommendations                         *)

\* response.ok
Ok(status) == status >= 200 /\ status <= 299

\* Line 40: the message used when the body names none.
StatusMessage(status) == "Server responded with status: " \o ToString(status)

\* ErrorMessage with the two fields looked up in the other order.
ErrorMessageDetailsFirst(body, status) ==
    IF body.t # "object" THEN StatusMessage(status)
    ELSE IF Truthy(body.details) THEN JsToString(body.details)
    ELSE IF Truthy(body.error) THEN JsToString(body.error)
    ELSE StatusMessage(status)

\* Lines 40-48: the message of the error raised for a response that is not
\* ok.  A body that is no JSON makes response.json() reject, and a null body
\* makes body.error raise: the catch of line 45 keeps the status message.
ErrorMessage(body, status) ==
    IF body.t # "object" THEN StatusMessage(status)
    ELSE IF Truthy(body.error) THEN JsToString(body.error)
    ELSE IF Truthy(body.details) THEN JsToString(body.details)
    ELSE StatusMessage(status)

\* Lines 50-52: the error fetchRecommendations throws.
HttpError(body, status) ==
    [message |-> ErrorMessage(body, status), status |-> status]

\* An error that carries no status: a rejected fetch, a success body that is
\* no JSON, a TypeError raised by the renderer.
PlainError(message) == [message |-> message, status |-> 0]

----------------------------------------------------------------------------
(* Inputs *)

Preferences == {"fastest", "cheapest", "greenest"}

Destinations ==
    { <<>>,
      <<" ", "\f", "U+00A0">>,
      <<"\r", "A", " ", "&", "B", "=", "#", "U+00E9", "U+D83D", "U+DE00", "\n">>,
      <<"A", "U+DE00", "U+D83D">> }

Statuses == {200, 500}

\* What a rejected fetch carries as its message.
TransportMessages == {"Failed to fetch"}

SyntaxErrorMessage == "Unexpected token '<', \"<html>\" is not valid JSON"

Rec(mode, duration, cost, co2, source) ==
    [t |-> "object", mode |-> mode, duration_minutes |-> duration,
     cost_usd |-> cost, environmental_impact_co2_kg |-> co2,
     source_cloud |-> source]

CarRec    == Rec(Str("car"), Num(12000), Num(2550), Num(1575), Str("GCP"))
TrainRec  == Rec(Str("train"), Num(9000), Num(3500), Num(520), Undefined)
OddRec    == Rec(Undefined, Undefined, Num(0), Num(5), Str(""))
NoCostRec == Rec(Str("bus"), Num(4500), Undefined, Num(300), Str("Azure"))
NullRec   == [Rec(Undefined, Undefined, Undefined, Undefined, Undefined)
                 EXCEPT !.t = "null"]

Origin(city) == [t |-> "object", city |-> city]
NoOrigin     == [t |-> "undefined", city |-> Undefined]

Body(origin, notes, recommendations) ==
    [t |-> "object", origin |-> origin, notes |-> notes,
     recommendations |-> recommendations]

NoBody      == [t |-> "undefined", origin |-> NoOrigin, notes |-> Absent,
                recommendations |-> Absent]
NullBody    == [NoBody EXCEPT !.t = "null"]
\* A body response.json() rejects.
Unparseable == [NoBody EXCEPT !.t = "unparseable"]

WellFormedBodies ==
    { Body(Origin(Str("Paris")), Array(<<>>), Array(<<CarRec>>)),
      Body(Origin(Array(<<Str("Lyon")>>)), Array(<<Str("a"), Null, Str("b")>>),
           Array(<<TrainRec, CarRec>>)),
      Body(Origin(Undefined), Array(<<>>), Array(<<>>)),
      Body(NoOrigin, Absent, Array(<<OddRec>>)),
      Body(NoOrigin, Absent, Absent) }

MalformedBodies ==
    { NullBody,
      Body(Origin(Str("Paris")), Array(<<>>), Array(<<CarRec, NoCostRec, TrainRec>>)),
      Body(NoOrigin, Absent, Array(<<NullRec>>)),
      Body(Origin(Str("Paris")), Text("note"), Array(<<CarRec>>)) }

\* What the body of a response that is ok may be.
SuccessBodies == WellFormedBodies \cup MalformedBodies \cup {Unparseable}

ErrBody(error, details) == [t |-> "object", error |-> error, details |-> details]
NoErrBody == [t |-> "undefined", error |-> Undefined, details |-> Undefined]

\* What the body of a response that is not ok may be.
ErrorBodies ==
    { ErrBody(Str("backend unavailable"), Undefined),
      ErrBody(Undefined, Str("routing service timed out")),
      ErrBody(Undefined, Undefined),
      ErrBody(Str(""), Str("location lookup failed")),
      ErrBody(Array(<<>>), Str("not shown")),
      ErrBody(Array(<<Str("a"), Str("b")>>), Str("not shown")),
      [NoErrBody EXCEPT !.t = "null"],
      [NoErrBody EXCEPT !.t = "unparseable"] }

----------------------------------------------------------------------------
(* State *)

VARIABLES
    destinationInput,    \* destinationInput.value
    preferenceSelect,    \* preferenceSelect.value
    defaultPreference,   \* the option the page's markup selects
    submitDisabled,      \* submitButton.disabled
    resultsAreaDisplay,  \* resultsArea.style.display ("" when not set)
    loadingDisplay,      \* loadingDiv.style.display
    errorText,           \* errorDiv.textContent
    errorDisplay,        \* errorDiv.style.display
    originInfo,          \* originInfoDiv.innerHTML
    notesInfo,           \* notesInfoDiv.innerHTML
    notesDisplay,        \* notesInfoDiv.style.display
    recommendationList,  \* the <li>s of recommendationList
    localStorage,        \* the item stored under PREFERENCE_STORAGE_KEY
    pending,             \* the submit handlers suspended at an await (a bag:
                         \* the closures differ in nothing but their position)
    catchQueued,         \* a listener is suspended at line 167 on a promise
                         \* that is rejected already: its catch and finally
                         \* are queued as microtasks
    fetchCount,          \* the number of calls of fetch() so far
    pageLoaded,          \* DOMContentLoaded has fired on this page
    lastEvent,           \* history: the task that ran last, and its inputs
    lastChanged,         \* history: the value of the last change event
    bypassed             \* history: a submit event came while the control
                         \* was disabled (not through the submit button)

vars == << destinationInput, preferenceSelect, defaultPreference, submitDisabled,
           resultsAreaDisplay, loadingDisplay, errorText, errorDisplay,
           originInfo, notesInfo, notesDisplay, recommendationList,
           localStorage, pending, catchQueued, fetchCount, pageLoaded, lastEvent,
           lastChanged, bypassed >>

domVars == << submitDisabled, resultsAreaDisplay, loadingDisplay, errorText,
              errorDisplay, originInfo, notesInfo, notesDisplay,
              recommendationList >>

NoItem      == [present |-> FALSE, value |-> ""]
Item(value) == [present |-> TRUE, value |-> value]

\* A submit handler suspended at an await: at line 36 (pc "fetch") or at
\* response.json(), line 42 or 55 (pc "json", with response.status).
Handler(pc, status) == [pc |-> pc, status |-> status]

Suspend(h) == pending (+) SetToBag({h})
Resume(h)  == pending (-) SetToBag({h})

NoError == [message |-> "", status |-> 0]

Event(kind) ==
    [kind |-> kind, destination |-> <<>>, preference |-> "",
     url |-> <<>>, status |-> 0, data |-> NoBody, body |-> NoErrBody,
     error |-> NoError]

\* The regions displayResults draws, as the record it works on.
Regions ==
    [originInfo |-> originInfo, notesInfo |-> notesInfo,
     notesDisplay |-> notesDisplay, recommendationList |-> recommendationList,
     message |-> ""]

----------------------------------------------------------------------------
(* The form controller *)

\* Lines 111-114
displayError(message) ==
    [errorText |-> "Error: " \o message, errorDisplay |-> "block"]

\* Lines 119-126
clearResults ==
    [recommendationList |-> <<>>, originInfo |-> "", notesInfo |-> "",
     errorText |-> "", errorDisplay |-> "none", resultsAreaDisplay |-> "none"]

\* Lines 131-133
savePreference == Item(preferenceSelect')

\* Assigning select.value: an option of the control, or none ("").
SelectValue(v) == IF v \in Preferences THEN v ELSE ""

\* loadPreference reading the item and not assigning it.
loadNothing == preferenceSelect

\* Lines 138-143: the value loadPreference leaves in the control.
loadPreference ==
    LET savedPreference == localStorage IN
    IF savedPreference.present /\ savedPreference.value # ""
    THEN SelectValue(savedPreference.value)
    ELSE preferenceSelect

\* SubmitDestination without trim().
RawDestination == destinationInput

\* Line 151
SubmitDestination == trim(destinationInput)

\* Line 155: if (!destination)
FailsValidation(destination) == destination = <<>>

\* Loading without line 163.
LoadingLeavesEnabled ==
    [resultsAreaDisplay |-> "block", loadingDisplay |-> "flex",
     submitDisabled |-> submitDisabled]

\* Lines 161-163: what the handler sets before it calls the client.
Loading ==
    [resultsAreaDisplay |-> "block", loadingDisplay |-> "flex",
     submitDisabled |-> TRUE]

\* Finally without line 174.
FinallyStaysDisabled == [loadingDisplay |-> "none", submitDisabled |-> submitDisabled]

\* Finally without line 173.
FinallyKeepsSpinner == [loadingDisplay |-> loadingDisplay, submitDisabled |-> FALSE]

\* Lines 172-175: the finally block.
Finally == [loadingDisplay |-> "none", submitDisabled |-> FALSE]

\* Line 171: error.message || "An unknown error occurred."
CaughtMessage(error) ==
    IF error.message # "" THEN error.message ELSE "An unknown error occurred."

Init ==
    /\ destinationInput = <<>>
    /\ defaultPreference \in Preferences
    /\ preferenceSelect = defaultPreference
    /\ submitDisabled = FALSE
    /\ resultsAreaDisplay = ""
    /\ loadingDisplay = ""
    /\ errorText = ""
    /\ errorDisplay = ""
    /\ originInfo = ""
    /\ notesInfo = ""
    /\ notesDisplay = ""
    /\ recommendationList = <<>>
    /\ localStorage = NoItem
    /\ pending = EmptyBag
    /\ catchQueued = FALSE
    /\ fetchCount = 0
    /\ pageLoaded = FALSE
    /\ lastEvent = Event("script")
    /\ lastChanged = NoItem
    /\ bypassed = FALSE

\* The user edits the destination field.
InputDestination(text) ==
    /\ destinationInput' = text
    /\ lastEvent' = Event("input")
    /\ UNCHANGED << preferenceSelect, defaultPreference, domVars, localStorage,
                    pending, catchQueued, fetchCount, pageLoaded, lastChanged, bypassed >>

\* Line 179: the user picks an option; the change listener saves it.
ChangePreference(value) ==
    /\ value # preferenceSelect
    /\ preferenceSelect' = value
    /\ localStorage' = savePreference
    /\ lastChanged' = Item(value)
    /\ lastEvent' = Event("change")
    /\ UNCHANGED << destinationInput, defaultPreference, domVars, pending, catchQueued,
                    fetchCount, pageLoaded, bypassed >>

\* Line 184: DOMContentLoaded fires once per page.
DOMContentLoaded ==
    /\ ~pageLoaded
    /\ pageLoaded' = TRUE
    /\ preferenceSelect' = loadPreference
    /\ lastEvent' = [Event("load") EXCEPT !.preference = preferenceSelect]
    /\ UNCHANGED << destinationInput, defaultPreference, domVars, localStorage,
                    pending, catchQueued, fetchCount, lastChanged, bypassed >>

\* The page is loaded again: a new document and a new run of the script.
\* The handlers of the old document are gone; local storage stays.  The user
\* may reload at any moment, also before DOMContentLoaded has fired.
Reload ==
    /\ destinationInput' = <<>>
    /\ preferenceSelect' = defaultPreference
    /\ submitDisabled' = FALSE
    /\ resultsAreaDisplay' = ""
    /\ loadingDisplay' = ""
    /\ errorText' = ""
    /\ errorDisplay' = ""
    /\ originInfo' = ""
    /\ notesInfo' = ""
    /\ notesDisplay' = ""
    /\ recommendationList' = <<>>
    /\ pending' = EmptyBag
    /\ catchQueued' = FALSE
    /\ pageLoaded' = FALSE
    /\ lastEvent' = Event("script")
    /\ bypassed' = FALSE
    /\ UNCHANGED << defaultPreference, localStorage, fetchCount, lastChanged >>

\* Lines 148-163: the submit listener up to its await.  The listener does
\* not read submitButton.disabled: a submit event that reaches the form
\* while the control is disabled (a scripted submit, another way to submit)
\* runs it all the same.  When line 31 throws, fetchRecommendations returns
\* a rejected promise without calling fetch, and the listener is suspended
\* at line 167 all the same: its catch and finally block are queued as
\* microtasks (RunMicrotasks).
Submit ==
    /\ bypassed' = (bypassed \/ submitDisabled)
    /\ LET destination == SubmitDestination
           preference  == preferenceSelect
       IN  IF FailsValidation(destination)
           THEN /\ errorText' = displayError("Please enter a destination city.").errorText
                /\ errorDisplay' = displayError("Please enter a destination city.").errorDisplay
                /\ lastEvent' = [Event("invalid") EXCEPT
                                     !.destination = destinationInput,
                                     !.preference = preference]
                /\ UNCHANGED << submitDisabled, resultsAreaDisplay, loadingDisplay,
                                originInfo, notesInfo, notesDisplay,
                                recommendationList, pending, catchQueued, fetchCount >>
           ELSE IF relativeUrl(destination, preference).threw
           THEN /\ recommendationList' = clearResults.recommendationList
                /\ originInfo' = clearResults.originInfo
                /\ notesInfo' = clearResults.notesInfo
                /\ errorText' = clearResults.errorText
                /\ errorDisplay' = clearResults.errorDisplay
                /\ resultsAreaDisplay' = Loading.resultsAreaDisplay
                /\ loadingDisplay' = Loading.loadingDisplay
                /\ submitDisabled' = Loading.submitDisabled
                /\ catchQueued' = TRUE
                /\ lastEvent' = [Event("malformed") EXCEPT
                                     !.destination = destinationInput,
                                     !.preference = preference,
                                     !.error = PlainError(
                                         relativeUrl(destination, preference).message)]
                /\ UNCHANGED << notesDisplay, pending, fetchCount >>
           ELSE /\ fetchCount < MaxFetches
                /\ recommendationList' = clearResults.recommendationList
                /\ originInfo' = clearResults.originInfo
                /\ notesInfo' = clearResults.notesInfo
                /\ errorText' = clearResults.errorText
                /\ errorDisplay' = clearResults.errorDisplay
                /\ resultsAreaDisplay' = Loading.resultsAreaDisplay
                /\ loadingDisplay' = Loading.loadingDisplay
                /\ submitDisabled' = Loading.submitDisabled
                /\ fetchCount' = fetchCount + 1
                /\ pending' = Suspend(Handler("fetch", 0))
                /\ UNCHANGED catchQueued
                /\ lastEvent' = [Event("submit") EXCEPT
                                     !.destination = destinationInput,
                                     !.preference = preference,
                                     !.url = relativeUrl(destination, preference).value]
                /\ UNCHANGED notesDisplay
    /\ UNCHANGED << destinationInput, preferenceSelect, defaultPreference,
                    localStorage, pageLoaded, lastChanged >>

\* Lines 169-175 for the listeners suspended on a promise that line 31
\* rejected: at the end of the task that ran them the microtasks run, and
\* each of these listeners displays the URIError and runs the finally block
\* (the same writes, however many there are).  An event a script dispatches
\* in that task runs its listener before them; the continuation of a request
\* cannot run before them.
RunMicrotasks ==
    /\ catchQueued
    /\ catchQueued' = FALSE
    /\ errorText' = displayError(CaughtMessage(PlainError(URIMalformed.message))).errorText
    /\ errorDisplay' = displayError(CaughtMessage(PlainError(URIMalformed.message))).errorDisplay
    /\ loadingDisplay' = Finally.loadingDisplay
    /\ submitDisabled' = Finally.submitDisabled
    /\ lastEvent' = [Event("urierror") EXCEPT
                         !.error = PlainError(URIMalformed.message)]
    /\ UNCHANGED << destinationInput, preferenceSelect, defaultPreference,
                    resultsAreaDisplay, originInfo, notesInfo, notesDisplay,
                    recommendationList, localStorage, pending, fetchCount,
                    pageLoaded, lastChanged, bypassed >>

\* Line 36: fetch resolves with a response; the handler h goes on to await
\* response.json() (line 42 or line 55).
Respond(h, status) ==
    /\ ~catchQueued
    /\ BagIn(h, pending)
    /\ h.pc = "fetch"
    /\ pending' = Resume(h) (+) SetToBag({Handler("json", status)})
    /\ lastEvent' = [Event("response") EXCEPT !.status = status]
    /\ UNCHANGED << destinationInput, preferenceSelect, defaultPreference, domVars,
                    localStorage, catchQueued, fetchCount, pageLoaded, lastChanged,
                    bypassed >>

\* Lines 165-175 after the await: the handler h ends.  r holds the regions as
\* the try block left them and error what it threw (NoError when it threw
\* nothing); the catch displays the error, the finally block runs.
Settle(h, r, error, threw) ==
    /\ ~catchQueued
    /\ originInfo' = r.originInfo
    /\ notesInfo' = r.notesInfo
    /\ notesDisplay' = r.notesDisplay
    /\ recommendationList' = r.recommendationList
    /\ IF threw
       THEN /\ errorText' = displayError(CaughtMessage(error)).errorText
            /\ errorDisplay' = displayError(CaughtMessage(error)).errorDisplay
       ELSE UNCHANGED << errorText, errorDisplay >>
    /\ loadingDisplay' = Finally.loadingDisplay
    /\ submitDisabled' = Finally.submitDisabled
    /\ pending' = Resume(h)
    /\ UNCHANGED << destinationInput, preferenceSelect, defaultPreference,
                    resultsAreaDisplay, localStorage, catchQueued, fetchCount,
                    pageLoaded, lastChanged, bypassed >>

\* Line 36: fetch rejects (the transport failed).
FetchFails(h, message) ==
    /\ BagIn(h, pending)
    /\ h.pc = "fetch"
    /\ Settle(h, Regions, PlainError(message), TRUE)
    /\ lastEvent' = [Event("transport") EXCEPT
                         !.error = PlainError(message)]

\* Lines 38-53: the body of a response that is not ok arrives, or is found to
\* be no JSON.
ErrorBody(h, body) ==
    /\ BagIn(h, pending)
    /\ h.pc = "json"
    /\ ~Ok(h.status)
    /\ Settle(h, Regions, HttpError(body, h.status), TRUE)
    /\ lastEvent' = [Event("http") EXCEPT
                         !.status = h.status, !.body = body,
                         !.error = HttpError(body, h.status)]

\* Lines 55 and 168: the body of a response that is ok arrives and is
\* rendered, or is found to be no JSON.
SuccessBody(h, data) ==
    /\ BagIn(h, pending)
    /\ h.pc = "json"
    /\ Ok(h.status)
    /\ LET r == IF data.t = "unparseable"
                THEN [Regions EXCEPT !.message = SyntaxErrorMessage]
                ELSE displayResults(Regions, data)
           done == [r EXCEPT !.message = ""]
       IN  /\ Settle(h, done, PlainError(r.message), r.message # "")
           /\ lastEvent' = [Event(IF data.t = "unparseable" THEN "syntax"
                                  ELSE IF r.message # "" THEN "threw"
                                  ELSE "rendered") EXCEPT
                                !.status = h.status, !.data = data,
                                !.error = PlainError(r.message)]

Next ==
    \/ \E text \in Destinations : InputDestination(text)
    \/ \E value \in Preferences : ChangePreference(value)
    \/ DOMContentLoaded
    \/ Reload
    \/ Submit
    \/ RunMicrotasks
    \/ \E h \in BagToSet(pending), status \in Statuses : Respond(h, status)
    \/ \E h \in BagToSet(pending), message \in TransportMessages : FetchFails(h, message)
    \/ \E h \in BagToSet(pending), body \in ErrorBodies : ErrorBody(h, body)
    \/ \E h \in BagToSet(pending), data \in SuccessBodies : SuccessBody(h, data)

Spec == Init /\ [][Next]_vars

----------------------------------------------------------------------------
(* Properties *)

\* The kinds of lastEvent with which a submit handler ends after its request.
SettleKinds == {"rendered", "threw", "syntax", "http", "transport"}

\* The kinds of lastEvent with which a run of the submit listener is recorded:
\* it called fetch, it failed validation, or building the URL threw.
SubmitKinds == {"submit", "invalid", "malformed"}

HasContent ==
    originInfo # "" \/ notesInfo # "" \/ recommendationList # <<>>

ErrorVisible == errorDisplay = "block" /\ errorText # ""

\* C1, for the error of a submit that fails validation: that submit draws
\* nothing, so whatever the origin, notes and recommendation regions hold
\* beside its message was rendered from an earlier request; while the message
\* is visible they hold nothing.
C1_NoStaleResultBesideError ==
    (lastEvent.kind = "invalid" /\ ErrorVisible) => ~HasContent

\* C2 as stated: in every reachable state the submit control is disabled
\* exactly while a request issued by the submit handler is outstanding.
C2_DisabledWhileOutstanding ==
    submitDisabled <=> pending # EmptyBag

\* C2 as amended: as long as every submit event reached the form while the
\* control was enabled, the control is disabled exactly while a submit
\* handler is suspended: while a request it issued is outstanding, or, when
\* no request could be built for its destination, until its catch and
\* finally blocks have run; and a submit that fails validation never changes
\* the control.
C2_DisabledWhileHandlerSuspended ==
    [][ /\ ~bypassed' => (submitDisabled' <=> (pending' # EmptyBag \/ catchQueued'))
        /\ lastEvent'.kind = "invalid" => submitDisabled' = submitDisabled ]_vars

C2_Witness ==
    /\ ~bypassed
    /\ lastEvent.kind = "response"
    /\ submitDisabled
    /\ \E h \in BagToSet(pending) : h.pc = "json"

\* C3: a submit whose destination is empty or only white space calls fetch
\* not at all, suspends no handler, and ends with the fixed validation message
\* displayed as the error.
C3_BlankDestinationNoRequest ==
    [][ (lastEvent'.kind \in SubmitKinds
            /\ \A i \in 1..Len(lastEvent'.destination) :
                   lastEvent'.destination[i] \in WhiteSpace)
        => /\ fetchCount' = fetchCount
           /\ pending' = pending
           /\ errorText' = "Error: Please enter a destination city."
           /\ errorDisplay' = "block" ]_vars

C3_Witness ==
    /\ lastEvent.kind = "invalid"
    /\ lastEvent.destination = <<" ", "\f", "U+00A0">>
    /\ errorText = "Error: Please enter a destination city."
    /\ pending = EmptyBag

\* The query of a URL as a server reads it: the text after "?" is cut at
\* every "&", each part at its first "=", and the value is percent-decoded
\* into the code units of the text.
DecodeToken(c) ==
    CASE c = "%09" -> <<"\t">>           [] c = "%0A" -> <<"\n">>
      [] c = "%0B" -> <<"U+000B">>       [] c = "%0C" -> <<"\f">>
      [] c = "%0D" -> <<"\r">>           [] c = "%20" -> <<" ">>
      [] c = "%23" -> <<"#">>            [] c = "%25" -> <<"%">>
      [] c = "%26" -> <<"&">>            [] c = "%2B" -> <<"+">>
      [] c = "%2C" -> <<",">>            [] c = "%2F" -> <<"/">>
      [] c = "%3A" -> <<":">>            [] c = "%3D" -> <<"=">>
      [] c = "%3F" -> <<"?">>            [] c = "%C2%A0" -> <<"U+00A0">>
      [] c = "%C3%A9" -> <<"U+00E9">>    [] c = "%E6%9D%B1" -> <<"U+6771">>
      [] c = "%F0%9F%98%80" -> <<"U+D83D", "U+DE00">>
      [] OTHER -> <<c>>

RECURSIVE Decode(_)
Decode(s) == IF s = <<>> THEN <<>> ELSE DecodeToken(Head(s)) \o Decode(Tail(s))

RECURSIVE SplitOn(_, _)
SplitOn(s, sep) ==
    IF s = <<>> THEN << <<>> >>
    ELSE LET rest == SplitOn(Tail(s), sep) IN
         IF Head(s) = sep THEN << <<>> >> \o rest
         ELSE << <<Head(s)>> \o Head(rest) >> \o Tail(rest)

RECURSIVE IndexOf(_, _, _)
IndexOf(s, c, i) ==
    IF i > Len(s) THEN 0 ELSE IF s[i] = c THEN i ELSE IndexOf(s, c, i + 1)

QueryParam(part) ==
    LET eq == IndexOf(part, "=", 1) IN
    IF eq = 0 THEN [name |-> part, value |-> <<>>]
    ELSE [name  |-> SubSeq(part, 1, eq - 1),
          value |-> Decode(SubSeq(part, eq + 1, Len(part)))]

QueryParams(url) ==
    LET q     == IndexOf(url, "?", 1)
        parts == SplitOn(SubSeq(url, q + 1, Len(url)), "&")
    IN  [i \in 1..Len(parts) |-> QueryParam(parts[i])]

\* A destination that is blank: empty, or white space only.
Blank(text) == \A i \in 1..Len(text) : text[i] \in WhiteSpace

\* Text that is well-formed Unicode (String.prototype.isWellFormed): every
\* leading surrogate has a trailing one after it, and every trailing one a
\* leading one before it.
WellFormedText(text) ==
    \A i \in 1..Len(text) :
        /\ IsHighSurrogate(text[i])
               => i < Len(text) /\ IsLowSurrogate(text[i + 1])
        /\ IsLowSurrogate(text[i])
               => i > 1 /\ IsHighSurrogate(text[i - 1])

\* What C4 says of a step that runs the submit listener and calls fetch.
OneRequest ==
    /\ fetchCount' = fetchCount + 1
    /\ BagCardinality(pending') = BagCardinality(pending) + 1
    /\ Head(lastEvent'.url) = "/api/route"
    /\ QueryParams(lastEvent'.url) =
           << [name |-> <<"destination">>,
               value |-> trim(lastEvent'.destination)],
              [name |-> <<"preference">>,
               value |-> Chars(lastEvent'.preference)] >>

\* C4 as stated: a submit whose destination is not blank calls fetch exactly
\* once, for /api/route with exactly the two query parameters destination
\* (the trimmed text) and preference; no other step of the page calls fetch
\* (no retry after a failure, no second request after a success).
C4_OneRequestPerSubmit ==
    [][ /\ (lastEvent'.kind \in SubmitKinds /\ ~Blank(lastEvent'.destination))
           => OneRequest
        /\ lastEvent'.kind \notin SubmitKinds
           => fetchCount' = fetchCount ]_vars

\* C4 as amended: a submit whose destination is not blank and is well-formed
\* Unicode text calls fetch exactly once, for /api/route with exactly the two
\* query parameters destination (the trimmed text) and preference; a submit
\* whose destination holds a surrogate that is not part of a pair calls fetch
\* not at all, and when its catch and finally blocks have run "Error: URI
\* malformed" is displayed, the spinner hidden and the control enabled; no
\* other step of the page calls fetch (no retry after a failure, no second
\* request after a success).
C4_OneRequestPerWellFormedSubmit ==
    [][ /\ (lastEvent'.kind \in SubmitKinds /\ ~Blank(lastEvent'.destination)
               /\ WellFormedText(lastEvent'.destination))
           => OneRequest
        /\ (lastEvent'.kind \in SubmitKinds
               /\ ~WellFormedText(lastEvent'.destination))
           => /\ fetchCount' = fetchCount
              /\ pending' = pending
              /\ catchQueued'
        /\ (catchQueued /\ ~catchQueued' /\ lastEvent'.kind # "script")
           => /\ errorText' = "Error: URI malformed"
              /\ errorDisplay' = "block"
              /\ loadingDisplay' = "none"
              /\ ~submitDisabled'
        /\ lastEvent'.kind \notin SubmitKinds
           => fetchCount' = fetchCount ]_vars

\* The second request of the page, for a destination with white space at
\* both ends, reserved characters, a letter outside ASCII and a surrogate
\* pair.
C4_Witness ==
    /\ lastEvent.kind = "submit"
    /\ lastEvent.destination =
           <<"\r", "A", " ", "&", "B", "=", "#", "U+00E9", "U+D83D", "U+DE00", "\n">>
    /\ lastEvent.preference = "greenest"
    /\ fetchCount = 2

\* The message the claim names for a body and a status: a field counts as
\* present whenever the body holds it.
Present(field) == field.t # "undefined"

ClaimedMessage(body, status) ==
    IF body.t = "object" /\ Present(body.error) THEN JsToString(body.error)
    ELSE IF body.t = "object" /\ Present(body.details) THEN JsToString(body.details)
    ELSE "Server responded with status: " \o ToString(status)

\* C5 as stated: for a response whose status N is not a success, the message
\* displayed is "Error: " and then the error field if present, else the
\* details field if present, else "Server responded with status: N".
C5_MessageOfFieldIfPresent ==
    lastEvent.kind = "http"
        => errorText = "Error: " \o ClaimedMessage(lastEvent.body, lastEvent.status)

\* A field the body holds with a value other than "", 0 and null.
Usable(field) ==
    /\ field.t \notin {"undefined", "null"}
    /\ field.t = "string" => field.s # ""
    /\ field.t = "number" => field.n # 0

AmendedMessage(body, status) ==
    IF body.t = "object" /\ Usable(body.error) THEN JsToString(body.error)
    ELSE IF body.t = "object" /\ Usable(body.details) THEN JsToString(body.details)
    ELSE "Server responded with status: " \o ToString(status)

\* C5 as amended: for a response whose status N is not a success, the submit
\* ends failed (error visible, spinner hidden, control enabled); the error
\* raised carries the status N and, as its message, the text of the error
\* field if the body holds one other than "", 0 and null, else the text of
\* such a details field, else "Server responded with status: N" (also when
\* the body is no JSON); the message displayed is "Error: " and then that
\* message, or "An unknown error occurred." when that message is empty (the
\* text of an empty array).
C5_MessageOfFieldIfUsable ==
    lastEvent.kind = "http"
        => LET message == AmendedMessage(lastEvent.body, lastEvent.status) IN
           /\ ~Ok(lastEvent.status)
           /\ lastEvent.error = [message |-> message, status |-> lastEvent.status]
           /\ errorText = "Error: " \o (IF message = ""
                                        THEN "An unknown error occurred."
                                        ELSE message)
           /\ errorDisplay = "block"
           /\ loadingDisplay = "none"
           /\ ~submitDisabled

C5_Witness ==
    /\ lastEvent.kind = "http"
    /\ lastEvent.status = 500
    /\ lastEvent.body = ErrBody(Str(""), Str("location lookup failed"))
    /\ errorText = "Error: location lookup failed"

\* C6: rendering a success body never raises: whatever field of a JSON object
\* body or of its recommendation entries is absent or malformed, the submit
\* ends with no error raised and none displayed.
C6_RenderNeverRaises ==
    (lastEvent.kind \in {"rendered", "threw"} /\ lastEvent.data.t = "object")
        => /\ lastEvent.error = NoError
           /\ errorDisplay = "none"
           /\ errorText = ""

\* C7: whenever a request started by a submit settles (rendered, rendering
\* raised, body no JSON, HTTP error, transport failure), the handler leaves
\* the loading indicator hidden and the submit control enabled.
C7_CleanupOnEverySettlement ==
    lastEvent.kind \in SettleKinds
        => loadingDisplay = "none" /\ ~submitDisabled

C7_Witness ==
    /\ lastEvent.kind = "threw"
    /\ ErrorVisible
    /\ loadingDisplay = "none"
    /\ ~submitDisabled

\* A success body of the shape the data model gives: notes and
\* recommendations are sequences or absent, and every recommendation is an
\* object whose cost and CO2 impact are numbers.
WellFormedRec(rec) ==
    /\ rec.t = "object"
    /\ rec.cost_usd.t = "number"
    /\ rec.environmental_impact_co2_kg.t = "number"

WellFormed(data) ==
    /\ data.t = "object"
    /\ data.notes.t \in {"undefined", "array"}
    /\ data.recommendations.t \in {"undefined", "array"}
    /\ \A i \in 1..Len(data.recommendations.items) :
           WellFormedRec(data.recommendations.items[i])

\* C8: after a body of the data model's shape is rendered, the list holds the
\* one literal "No recommendations found matching your criteria." entry when
\* its recommendations are empty or absent, and otherwise one entry per
\* recommendation in the order received; rendering the same body again onto
\* the page (entries from the first rendering in place) leaves the same list.
C8_ListMatchesRecommendations ==
    (lastEvent.kind \in {"rendered", "threw"} /\ WellFormed(lastEvent.data))
        => LET recs == lastEvent.data.recommendations.items IN
           /\ lastEvent.kind = "rendered"
           /\ recs = <<>> => recommendationList = <<EmptyLi>>
           /\ recs # <<>>
                  => /\ Len(recommendationList) = Len(recs)
                     /\ \A i \in 1..Len(recs) :
                            recommendationList[i] = RenderLi(recs[i])
           /\ displayResults(Regions, lastEvent.data).recommendationList
                  = recommendationList

C8_Witness ==
    /\ lastEvent.kind = "rendered"
    /\ Len(lastEvent.data.recommendations.items) = 2
    /\ Len(recommendationList) = 2
    /\ recommendationList[1][1] = "U+1F686Mode: train"
    /\ recommendationList[2][3] = "Est. Cost: $25.50"

\* C9: the stored value is always the one of the most recent change event,
\* and when the page has loaded the control holds that value, or the
\* markup's default when no value was ever saved.
C9_PreferenceRoundTrip ==
    /\ localStorage = lastChanged
    /\ lastEvent.kind = "load"
           => preferenceSelect = IF lastChanged.present
                                 THEN lastChanged.value
                                 ELSE defaultPreference

\* A page load that put a saved value back into a control the markup had set
\* to another option.
C9_Witness ==
    /\ lastEvent.kind = "load"
    /\ lastChanged = Item("cheapest")
    /\ defaultPreference = "fastest"
    /\ lastEvent.preference = "fastest"
    /\ preferenceSelect = "cheapest"

\* C10: as long as every submit event reached the form while the submit
\* control was enabled, at most one request is outstanding.
C10_AtMostOneOutstanding == ~bypassed => BagCardinality(pending) <= 1

\* A second request is outstanding after the first one settled.
C10_Witness ==
    /\ ~bypassed
    /\ BagCardinality(pending) = 1
    /\ fetchCount = 2

====
